---- MODULE Spec2Model ----
(***************************************************************************)
(* Tender quotation builder: the Schedule-of-Rates catalog, the Gemini     *)
(* extraction adapter and the two batch matching passes of the repository  *)
(* (TenderProcessor.handleProcess and App.handleProcessTender).            *)
(*                                                                         *)
(* Text is a sequence of one-character strings, so that toLowerCase and    *)
(* trim are computed and not assumed.  An optional value (undefined/null)  *)
(* is a sequence of length 0 or 1.                                         *)
(***************************************************************************)
EXTENDS Integers, Sequences, FiniteSets, TLC

\* ------------------------------------------------------------------ bounds
MaxCatalog == 2
MaxParsed == 2
MaxBackup == 1
MaxQuoted == 1

\* ------------------------------------------------------------------- text
UpperChars == <<"P", "Q", "S", "T", "Z">>
LowerChars == <<"p", "q", "s", "t", "z">>

LowerChar(c) ==
  IF \E i \in DOMAIN UpperChars : UpperChars[i] = c
    THEN LowerChars[CHOOSE i \in DOMAIN UpperChars : UpperChars[i] = c]
    ELSE c

toLowerCase(s) == [i \in 1..Len(s) |-> LowerChar(s[i])]

RECURSIVE trimStart(_)
trimStart(s) ==
  IF s # <<>> /\ Head(s) = " " THEN trimStart(Tail(s)) ELSE s

RECURSIVE trimEnd(_)
trimEnd(s) ==
  IF s # <<>> /\ s[Len(s)] = " " THEN trimEnd(SubSeq(s, 1, Len(s) - 1)) ELSE s

trim(s) == trimEnd(trimStart(s))

\* --------------------------------------------------------------- sequences
RECURSIVE SeqsUpTo(_, _)
SeqsUpTo(S, n) ==
  IF n = 0 THEN {<<>>}
  ELSE LET shorter == SeqsUpTo(S, n - 1)
       IN shorter \cup {Append(q, x) : q \in {r \in shorter : Len(r) = n - 1}, x \in S}

Map(f(_), s) == [i \in 1..Len(s) |-> f(s[i])]

Range(s) == {s[i] : i \in DOMAIN s}

\* Array.prototype.find: the first element satisfying the test, if any.
Find(s, Test(_)) ==
  LET hits == SelectSeq(s, Test) IN IF hits = <<>> THEN <<>> ELSE <<Head(hits)>>

\* ----------------------------------------------------------- input domains
CatalogNames == {<<"P">>, <<"q">>}
CatalogRates == {10, 20}

\* The scope text of a catalog record goes with its rate, so that two records
\* of one name at different rates also differ in scope; the cheaper text is
\* equal to the tender scope <<"s">> only after trimming and case folding.
CatalogScope(rate) == IF rate = 10 THEN <<" ", "S">> ELSE <<"t">>

\* A catalog record without identifier and timestamp.
RateFields ==
  {[name |-> n, unit |-> <<"m">>, rate |-> r, scopeOfWork |-> CatalogScope(r),
    source |-> <<"r">>] : n \in CatalogNames, r \in CatalogRates}

SORItem(f, id, ts) ==
  [id |-> id, name |-> f.name, unit |-> f.unit, rate |-> f.rate,
   scopeOfWork |-> f.scopeOfWork, source |-> f.source, timestamp |-> ts]

\* The catalogs the persisted store may hold at start-up: identifiers are
\* distinct (1..n in list order).
StoredCatalogs ==
  {[i \in 1..Len(fs) |-> SORItem(fs[i], i, 1)] : fs \in SeqsUpTo(RateFields, MaxCatalog)}

\* What extraction may deliver for one tender line: quantity 0 stands for a
\* missing or zero quantity, estimatedRate is optional.  A line of scope
\* <<"s">> comes without quantity and estimate, a line of scope <<"t">> with
\* both; the schema asks for a number, and the line named <<"z">> comes with
\* a number below zero.
ParsedItem(n, s) ==
  [name |-> n,
   quantity |-> IF s = <<"s">> THEN 0 ELSE IF n = <<"z">> THEN -2 ELSE 2,
   requestedScope |-> s,
   estimatedRate |-> IF s = <<"s">> THEN <<>> ELSE <<15>>]

\* The name <<"p">> is the catalog name <<"P">> in another case; no catalog
\* record is named <<"z">>, and the scope of such a line goes only into the
\* prompt of the remote call, whose reply is free here.
ParsedItems ==
  {ParsedItem(<<"p">>, <<"s">>), ParsedItem(<<"p">>, <<"t">>),
   ParsedItem(<<"z">>, <<"t">>)}

ParsedLists == SeqsUpTo(ParsedItems, MaxParsed)

\* What the user may have typed into the rate form when it is submitted: the
\* inputs are required except the source, and the rate input takes a number
\* of either sign.
FormDatas ==
  {[name |-> <<"p">>, unit |-> <<"m">>, rate |-> <<"1", "0">>,
    scopeOfWork |-> <<"t">>, source |-> <<>>],
   [name |-> <<"q", "\"">>, unit |-> <<"m">>, rate |-> <<"-", "5">>,
    scopeOfWork |-> <<"t">>, source |-> <<"r">>]}

\* What rate extraction may deliver for one pasted line, and for a paste.
ExtractedItems == {f \in RateFields : f.rate = 20}

ExtractedLists == SeqsUpTo(ExtractedItems, MaxParsed)

\* The readings of Date.now() after start-up (the stored records carry 1).
Clock == {2}

\* What the user may type into the text area (it starts empty).
InputTexts == {<<" ">>, <<"t">>}

\* ------------------------------------------------------ extraction adapter
\* What the environment does to one remote call.  kind:
\*   clientThrows    new GoogleGenAI(...) throws
\*   transportFails  generateContent rejects (network, timeout)
\*   malformed       response.text is not JSON
\*   empty           response.text is empty or undefined
\*   jsonNull        response.text is the JSON value null
\*   nonArray        response.text is JSON, but no array
\*   object          response.text is a JSON object (id: its matchedId, if any)
\*   array           response.text is a JSON array (list: its elements)
Env(kind, id, list) == [kind |-> kind, id |-> id, list |-> list]

FailureKinds == {"clientThrows", "transportFails", "malformed", "jsonNull", "nonArray"}

IsFailure(env) == env.kind \in FailureKinds

MatchEnvs(dbItems) ==
  {Env(k, <<>>, <<>>) :
     k \in {"clientThrows", "transportFails", "malformed", "empty", "jsonNull", "object"}}
  \cup {Env("object", <<i>>, <<>>) : i \in {dbItems[j].id : j \in DOMAIN dbItems} \cup {0}}

RateEnvs ==
  {Env(k, <<>>, <<>>) :
     k \in {"clientThrows", "transportFails", "malformed", "empty", "nonArray"}}
  \cup {Env("array", <<>>, l) : l \in ExtractedLists}

ParseEnvs ==
  {Env(k, <<>>, <<>>) :
     k \in {"clientThrows", "transportFails", "malformed", "empty", "nonArray"}}
  \cup {Env("array", <<>>, l) : l \in ParsedLists}

Threw == [threw |-> TRUE, array |-> FALSE, id |-> <<>>, list |-> <<>>]
ReturnId(id) == [threw |-> FALSE, array |-> FALSE, id |-> id, list |-> <<>>]
ReturnList(l) == [threw |-> FALSE, array |-> TRUE, id |-> <<>>, list |-> l]
ReturnNonArray == [threw |-> FALSE, array |-> FALSE, id |-> <<>>, list |-> <<>>]

\* The try block of findBestMatchingItem: JSON.parse(response.text || '{}'),
\* then result.matchedId || null; every throw inside it is caught.
MatchTryBlock(env) ==
  CASE env.kind = "transportFails" -> ReturnId(<<>>)
    [] env.kind = "malformed" -> ReturnId(<<>>)
    [] env.kind = "jsonNull" -> ReturnId(<<>>)
    [] env.kind = "empty" -> ReturnId(<<>>)
    [] OTHER -> ReturnId(env.id)

\* The try block of parseBulkItems and parseRatesFromText:
\* JSON.parse(response.text || '[]'), returned as it is.
ParseTryBlock(env) ==
  CASE env.kind = "transportFails" -> ReturnList(<<>>)
    [] env.kind = "malformed" -> ReturnList(<<>>)
    [] env.kind = "empty" -> ReturnList(<<>>)
    [] env.kind = "array" -> ReturnList(env.list)
    [] OTHER -> ReturnNonArray

\* Mutant: the call goes out whatever the summary holds.
findBestMatchingItem_always(dbItems, env) ==
  IF env.kind = "clientThrows" THEN Threw ELSE MatchTryBlock(env)

\* services/geminiservice.ts: getClient() is called before the try block.
findBestMatchingItem(dbItems, env) ==
  IF Len(dbItems) = 0 THEN ReturnId(<<>>)
  ELSE IF env.kind = "clientThrows" THEN Threw
  ELSE MatchTryBlock(env)

parseBulkItems(env) ==
  IF env.kind = "clientThrows" THEN Threw ELSE ParseTryBlock(env)

parseRatesFromText(env) ==
  IF env.kind = "clientThrows" THEN Threw ELSE ParseTryBlock(env)

\* The geminiService object of the single-file App: this.client is read
\* inside the try block.
App_findBestMatchingItem(dbItems, env) ==
  IF Len(dbItems) = 0 THEN ReturnId(<<>>)
  ELSE IF env.kind = "clientThrows" THEN ReturnId(<<>>)
  ELSE MatchTryBlock(env)

App_parseBulkItems(env) ==
  IF env.kind = "clientThrows" THEN ReturnList(<<>>) ELSE ParseTryBlock(env)

App_parseRatesFromText(env) ==
  IF env.kind = "clientThrows" THEN ReturnList(<<>>) ELSE ParseTryBlock(env)

\* The record of the last adapter call, kept for the claims about the adapter.
CallRecord(fn, env, r) ==
  [fn |-> fn, failure |-> IsFailure(env), threw |-> r.threw,
   none |-> (~r.threw /\ r.id = <<>> /\ r.list = <<>> /\ (fn = "findBestMatchingItem" \/ r.array))]

NoCall == [fn |-> "", failure |-> FALSE, threw |-> FALSE, none |-> FALSE]

\* --------------------------------------------------------- matching engine
dbItemSummary(cat) == Map(LAMBDA d : [id |-> d.id, name |-> d.name], cat)

exactMatches(cat, tenderItem) ==
  SelectSeq(cat, LAMBDA sor : toLowerCase(sor.name) = toLowerCase(tenderItem.name))

\* [...exactMatches].sort((a, b) => a.rate - b.rate): a stable sort.
RECURSIVE InsertByRate(_, _)
InsertByRate(sorted, e) ==
  IF sorted = <<>> THEN <<e>>
  ELSE IF Head(sorted).rate - e.rate <= 0
    THEN <<Head(sorted)>> \o InsertByRate(Tail(sorted), e)
    ELSE <<e>> \o sorted

RECURSIVE SortByRate(_)
SortByRate(s) ==
  IF s = <<>> THEN <<>>
  ELSE InsertByRate(SortByRate(SubSeq(s, 1, Len(s) - 1)), s[Len(s)])

\* Mutant: the first exact match is taken, the sort is forgotten.
lowestExact_unsorted(matches) == Head(matches)

lowestExact(matches) == Head(SortByRate(matches))

isScopeIdentical(sor, tenderItem) ==
  trim(toLowerCase(sor.scopeOfWork)) = trim(toLowerCase(tenderItem.requestedScope))

\* crypto.randomUUID(): the i-th identifier drawn when the identifiers in
\* used are still held by the program; a fresh identifier differs from all
\* of them and from the ones drawn before it.
RECURSIVE randomUUID(_, _)
randomUUID(used, i) ==
  LET least == CHOOSE n \in 1..(Cardinality(used) + 1) : n \notin used
  IN IF i = 1 THEN least ELSE randomUUID(used \cup {least}, i - 1)

\* parsed.map(p => ({...})): the pending tender items of handleProcess.
initialTenderItems(parsed, used) ==
  [i \in 1..Len(parsed) |->
     [id |-> randomUUID(used, i),
      name |-> parsed[i].name,
      quantity |-> IF parsed[i].quantity = 0 THEN 1 ELSE parsed[i].quantity,
      requestedScope |-> parsed[i].requestedScope,
      estimatedRate |-> parsed[i].estimatedRate,
      matchedRate |-> <<>>,
      status |-> "pending"]]

\* Step A of the loop body.
ExactResult(tenderItem, matches) ==
  [tenderItem EXCEPT
     !.status = IF isScopeIdentical(lowestExact(matches), tenderItem)
                  THEN "matched" ELSE "review",
     !.matchedRate = <<lowestExact(matches)>>]

\* Mutant: an identifier that resolves to nothing falls back to the first
\* catalog record.
SemanticResult_fallback(tenderItem, cat, matchedId) ==
  IF cat = <<>>
    THEN [tenderItem EXCEPT !.status = "no-match"]
    ELSE [tenderItem EXCEPT !.status = "review", !.matchedRate = <<Head(cat)>>]

\* Steps B and C of the loop body, once findBestMatchingItem has returned.
SemanticResult(tenderItem, cat, matchedId) ==
  LET bestMatch == IF matchedId = <<>> THEN <<>>
                   ELSE Find(cat, LAMBDA d : d.id = matchedId[1])
  IN IF bestMatch # <<>>
       THEN [tenderItem EXCEPT !.status = "review", !.matchedRate = bestMatch]
       ELSE [tenderItem EXCEPT !.status = "no-match"]

\* The loop of handleProcess from its current item up to the next await (an
\* item without an exact name match) or the end of the list.
RECURSIVE RunLoop(_, _, _)
RunLoop(cat, pending, processedItems) ==
  IF pending = <<>>
    THEN [pc |-> "done", pending |-> <<>>, processedItems |-> processedItems]
  ELSE IF Len(exactMatches(cat, Head(pending))) > 0
    THEN RunLoop(cat, Tail(pending),
                 Append(processedItems,
                        ExactResult(Head(pending), exactMatches(cat, Head(pending)))))
  ELSE [pc |-> "match", pending |-> pending, processedItems |-> processedItems]

\* -------------------------------------------------------------- rate form
Digits == <<"0", "1", "2", "3", "4", "5", "6", "7", "8", "9">>

DigitValue(c) == (CHOOSE d \in DOMAIN Digits : Digits[d] = c) - 1

RECURSIVE parseDigits(_)
parseDigits(s) ==
  IF s = <<>> THEN 0
  ELSE parseDigits(SubSeq(s, 1, Len(s) - 1)) * 10 + DigitValue(s[Len(s)])

\* parseFloat of what a number input holds: an optional sign and digits.
parseFloat(s) ==
  IF Head(s) = "-" THEN 0 - parseDigits(Tail(s)) ELSE parseDigits(s)

\* { ...formData, rate: parseFloat(formData.rate) }
submitted(formData) == [formData EXCEPT !.rate = parseFloat(@)]

\* -------------------------------------------------------------- rate list
\* Math.min(...numbers) of a list that is not empty.
RECURSIVE MathMin(_)
MathMin(numbers) ==
  IF Len(numbers) = 1 THEN numbers[1]
  ELSE LET m == MathMin(Tail(numbers))
       IN IF numbers[1] < m THEN numbers[1] ELSE m

\* Mutant: the names are compared as they are written.
isLowest_caseSensitive(allRates, item) ==
  LET sameItems == SelectSeq(allRates, LAMBDA r : r.name = item.name)
  IN Len(sameItems) > 1 /\ item.rate = MathMin(Map(LAMBDA r : r.rate, sameItems))

\* RateList.isLowest
isLowest(allRates, item) ==
  LET sameItems ==
        SelectSeq(allRates, LAMBDA r : toLowerCase(r.name) = toLowerCase(item.name))
  IN Len(sameItems) > 1 /\ item.rate = MathMin(Map(LAMBDA r : r.rate, sameItems))

\* -------------------------------------------------------------- quotation
\* item.quantity * (item.matchedRate?.rate || 0)
lineTotal(item) ==
  item.quantity * (IF item.matchedRate = <<>> THEN 0 ELSE item.matchedRate[1].rate)

\* Mutant: only the items of status 'matched' are counted.
RECURSIVE grandTotal_matchedOnly(_)
grandTotal_matchedOnly(list) ==
  IF list = <<>> THEN 0
  ELSE grandTotal_matchedOnly(SubSeq(list, 1, Len(list) - 1))
       + (IF list[Len(list)].status = "matched" THEN lineTotal(list[Len(list)]) ELSE 0)

\* list.reduce((sum, item) => sum + lineTotal(item), 0)
RECURSIVE grandTotal(_)
grandTotal(list) ==
  IF list = <<>> THEN 0
  ELSE grandTotal(SubSeq(list, 1, Len(list) - 1)) + lineTotal(list[Len(list)])

\* A number that need not be whole: num / den with den > 0.
Ratio(num, den) == [num |-> num, den |-> den]

\* calculateDiff(est, quoted): null when either argument is undefined or 0,
\* else ((quoted - est) / est) * 100.
calculateDiff(est, quoted) ==
  IF est = <<>> \/ quoted = <<>> THEN <<>>
  ELSE IF est[1] = 0 \/ quoted[1] = 0 THEN <<>>
  ELSE <<Ratio((quoted[1] - est[1]) * 100, est[1])>>

\* The quotation card: calculateDiff(item.estimatedRate, item.matchedRate?.rate),
\* shown when it is not null.
cardDiff(item) ==
  calculateDiff(item.estimatedRate,
                IF item.matchedRate = <<>> THEN <<>> ELSE <<item.matchedRate[1].rate>>)

\* Number.prototype.toFixed(2), as the number of hundredths written.
toFixed2(x) ==
  LET abs == IF x.num < 0 THEN 0 - x.num ELSE x.num
      hundredths == (abs * 200 + x.den) \div (2 * x.den)
  IN IF x.num < 0 THEN 0 - hundredths ELSE hundredths

\* The 'Percentage Diff (%)' cell of a row of handleExportExcel: the text
\* 'N/A', or a number with two decimals and a percent sign.
exportDiffCell(i) ==
  LET quoted == IF i.matchedRate = <<>> THEN 0 ELSE i.matchedRate[1].rate
      est == IF i.estimatedRate = <<>> THEN 0 ELSE i.estimatedRate[1]
      diff == IF est # 0 THEN Ratio((quoted - est) * 100, est) ELSE Ratio(0, 1)
  IN IF est # 0 THEN <<toFixed2(diff), "%">> ELSE <<"N/A">>

\* ------------------------------------------------------------- CSV export
\* The byte-order mark U+FEFF, one character of the content.
BOM == "BOM"

\* String(n) of a whole number.
RECURSIVE DigitsOf(_)
DigitsOf(n) ==
  IF n < 10 THEN <<Digits[n + 1]>> ELSE Append(DigitsOf(n \div 10), Digits[(n % 10) + 1])

String(n) == IF n < 0 THEN <<"-">> \o DigitsOf(0 - n) ELSE DigitsOf(n)

\* new Date(timestamp).toLocaleDateString(): the stored timestamps and the
\* clock of the model are milliseconds 1 and 2 of the epoch (en-US, UTC).
toLocaleDateString(timestamp) == <<"1", "/", "1", "/", "1", "9", "7", "0">>

\* Array.prototype.join for texts.
RECURSIVE Join(_, _)
Join(texts, separator) ==
  IF texts = <<>> THEN <<>>
  ELSE IF Len(texts) = 1 THEN texts[1]
  ELSE texts[1] \o separator \o Join(Tail(texts), separator)

\* val.replace(/"/g, '""')
RECURSIVE DoubleQuotes(_)
DoubleQuotes(val) ==
  IF val = <<>> THEN <<>>
  ELSE (IF Head(val) = "\"" THEN <<"\"", "\"">> ELSE <<Head(val)>>)
       \o DoubleQuotes(Tail(val))

\* Mutant: the cell is wrapped in quotes as it is.
CSVCell_wrappedOnly(val) == <<"\"">> \o val \o <<"\"">>

\* `"${val.replace(/"/g, '""')}"`
CSVCell(val) == <<"\"">> \o DoubleQuotes(val) \o <<"\"">>

CSVRow(row) == Join([c \in DOMAIN row |-> CSVCell(row[c])], <<",">>)

\* generateCSV of the App: the content of the blob, the header row first.
generateCSV(headers, rows) ==
  <<BOM>> \o Join(<<CSVRow(headers)>> \o [r \in DOMAIN rows |-> CSVRow(rows[r])],
                  <<"\r", "\n">>)

\* generateCSV of handleExportExcel: data is the header row and the rows.
TenderProcessor_generateCSV(data) ==
  <<BOM>> \o Join([r \in DOMAIN data |-> CSVRow(data[r])], <<"\r", "\n">>)

\* handleExportDatabase: the header row (in short) and one row per record,
\* every cell as String(cell) makes it.
DatabaseHeaders == <<<<"N">>, <<"U">>, <<"R">>, <<"S">>, <<"F">>, <<"D">>>>

DatabaseRows(cat) ==
  [i \in DOMAIN cat |->
     <<cat[i].name, cat[i].unit, String(cat[i].rate), cat[i].scopeOfWork,
       cat[i].source, toLocaleDateString(cat[i].timestamp)>>]

handleExportDatabase(cat) == generateCSV(DatabaseHeaders, DatabaseRows(cat))

\* ------------------------------------------------------------ persistence
\* A JSON document (the localStorage value, a backup file): text that is no
\* JSON, a JSON value that is no array, or a JSON array whose elements are
\* objects, each a sequence of <<key, value>> members.
Doc(kind, list) == [kind |-> kind, list |-> list]

\* The members JSON.stringify writes for one catalog record.
JSONobject(sor) ==
  <<<<"id", sor.id>>, <<"name", sor.name>>, <<"unit", sor.unit>>,
    <<"rate", sor.rate>>, <<"scopeOfWork", sor.scopeOfWork>>,
    <<"source", sor.source>>, <<"timestamp", sor.timestamp>>>>

\* Mutant: the records are written last to first.
JSONstringify_reversed(cat) ==
  Doc("array", [i \in 1..Len(cat) |-> JSONobject(cat[Len(cat) + 1 - i])])

\* JSON.stringify(sorData)
JSONstringify(cat) == Doc("array", Map(JSONobject, cat))

\* The value of the member named key of a parsed object (the last one wins).
Member(object, key) ==
  LET ms == SelectSeq(object, LAMBDA m : m[1] = key)
  IN ms[Len(ms)][2]

\* JSON.parse of one array element: an object with the members it was given.
JSONrecord(object) ==
  [key \in {object[i][1] : i \in DOMAIN object} |-> Member(object, key)]

\* JSON.parse(text) of an array document.
JSONparse(doc) == Map(JSONrecord, doc.list)

\* What localStorage may hold under the key when the App starts: nothing,
\* text that is no JSON, or what the save effect wrote.
PersistedStores ==
  {Doc("absent", <<>>), Doc("notJSON", <<>>)}
  \cup {JSONstringify(c) : c \in StoredCatalogs}

\* The load effect: if (saved) { try { setSorData(JSON.parse(saved)) } catch {} };
\* the catalog it sets, if any.
loadEffect(saved) ==
  IF saved.kind = "array" THEN <<JSONparse(saved)>> ELSE <<>>

\* The save effect: localStorage.setItem(key, JSON.stringify(sorData)).
saveEffect(cat) == JSONstringify(cat)

\* Mutant: the save effect of the first render runs before the load effect.
mount_saveFirst(saved) ==
  LET loaded == loadEffect(saveEffect(<<>>))
  IN [sorData |-> loaded[1], store |-> saveEffect(loaded[1])]

\* The effects of the first render, in their order, the load effect reading
\* saved and the save effect writing the empty catalog of useState([]), and
\* of the render that follows when the load effect set the catalog.
mount(saved) ==
  LET loaded == loadEffect(saved)
      first == saveEffect(<<>>)
  IN IF loaded = <<>>
       THEN [sorData |-> <<>>, store |-> first]
       ELSE [sorData |-> loaded[1], store |-> saveEffect(loaded[1])]

\* Backup files from elsewhere: no JSON, a JSON object, and arrays of records.
BackupFiles ==
  {Doc("notJSON", <<>>), Doc("object", <<>>)}
  \cup {JSONstringify(c) : c \in {d \in StoredCatalogs : Len(d) <= MaxBackup}}

\* Backup files edited by hand: an empty array, and an array in which one
\* record was copied and its rate changed, the identifier left as it was.
EditedFiles ==
  {Doc("array", <<>>),
   Doc("array",
       <<JSONobject(SORItem(CHOOSE f \in RateFields : f.name = <<"P">> /\ f.rate = 10, 1, 1)),
         JSONobject(SORItem(CHOOSE f \in RateFields : f.name = <<"P">> /\ f.rate = 20, 1, 1))>>)}

\* ------------------------------------------------------------------ state
VARIABLES
  build,               \* which entry point runs: the TenderProcessor component or the single-file App
  sorData,             \* the catalog
  store,               \* localStorage['smart_rate_store_v3']
  chosenFile,          \* the file selected in the restore input, if any
  notice,              \* the alert raised by the last restore attempt, if any
  confirmed,           \* the user's answer to the last confirm() dialog, if one was shown
  backup,              \* the backup file downloaded last, if any
  isFormOpen,          \* the rate form is shown (a modal dialog)
  editingItem,         \* the record being edited, if any
  previewItems,        \* RateForm state: the extracted records awaiting import
  inputText,           \* TenderProcessor state
  items,
  processing,
  confirmingItem,
  hp,                  \* the suspended handleProcess call
  tenderInputText,     \* App state
  tenderItems,
  isProcessingTender,
  hpt,                 \* the suspended handleProcessTender call
  passLog,             \* history of the pass behind the current list: its catalog, the parsed list, the replies, the published list
  lastCall,            \* history: the last adapter call and how it ended
  backupOf             \* history: the catalog the last backup was taken of

vars ==
  <<build, sorData, store, chosenFile, notice, confirmed, backup, isFormOpen,
    editingItem, previewItems, inputText, items, processing,
    confirmingItem, hp, tenderInputText, tenderItems, isProcessingTender, hpt,
    passLog, lastCall, backupOf>>

formVars == <<isFormOpen, editingItem, previewItems>>
catalogVars == <<sorData, store, chosenFile, notice, confirmed, backup, formVars>>
componentVars == <<inputText, items, processing, confirmingItem, hp>>
appVars == <<tenderInputText, tenderItems, isProcessingTender, hpt>>
historyVars == <<passLog, lastCall, backupOf>>

Idle == [pc |-> "idle", sorData |-> <<>>, pending |-> <<>>, processedItems |-> <<>>]

NoPass == [cat |-> <<>>, parsed |-> <<>>, replies |-> <<>>, published |-> <<>>]

Reply(id, r) == [id |-> id, matchedId |-> r.id]

Init ==
  /\ build \in {"component", "monolith"}
  /\ sorData \in StoredCatalogs
  /\ store = JSONstringify(sorData)
  /\ chosenFile = <<>>
  /\ notice = ""
  /\ confirmed = <<>>
  /\ backup = <<>>
  /\ isFormOpen = FALSE
  /\ editingItem = <<>>
  /\ previewItems = <<>>
  /\ inputText = <<>>
  /\ items = <<>>
  /\ processing = FALSE
  /\ confirmingItem = <<>>
  /\ hp = Idle
  /\ tenderInputText = <<>>
  /\ tenderItems = <<>>
  /\ isProcessingTender = FALSE
  /\ hpt = Idle
  /\ passLog = NoPass
  /\ lastCall = NoCall
  /\ backupOf = <<>>

\* -------------------------------------------- TenderProcessor (component)
setInputText(text) ==
  /\ build = "component"
  /\ items = <<>>
  /\ inputText' = text
  /\ UNCHANGED <<build, catalogVars, items, processing, confirmingItem, hp,
                 appVars, historyVars>>

\* Mutant: the button does not look at the catalog.
handleProcess_anyCatalog ==
  /\ build = "component"
  /\ items = <<>>
  /\ ~processing
  /\ trim(inputText) # <<>>
  /\ processing' = TRUE
  /\ hp' = [pc |-> "parse", sorData |-> sorData, pending |-> <<>>,
            processedItems |-> <<>>]
  /\ passLog' = [NoPass EXCEPT !.cat = sorData]
  /\ UNCHANGED <<build, catalogVars, inputText, items, confirmingItem, appVars,
                 lastCall, backupOf>>

\* The click on "Analyze & Quote", up to the first await.
handleProcess ==
  /\ build = "component"
  /\ items = <<>>
  /\ ~processing
  /\ trim(inputText) # <<>>
  /\ Len(sorData) # 0
  /\ processing' = TRUE
  /\ hp' = [pc |-> "parse", sorData |-> sorData, pending |-> <<>>,
            processedItems |-> <<>>]
  /\ passLog' = [NoPass EXCEPT !.cat = sorData]
  /\ UNCHANGED <<build, catalogVars, inputText, items, confirmingItem, appVars,
                 lastCall, backupOf>>

\* What handleProcess does after a loop run st: publish, or stay suspended.
AfterLoop(st, log) ==
  IF st.pc = "done"
    THEN /\ items' = st.processedItems
         /\ processing' = FALSE
         /\ hp' = Idle
         /\ passLog' = [log EXCEPT !.published = <<st.processedItems>>]
    ELSE /\ hp' = [hp EXCEPT !.pc = st.pc, !.pending = st.pending,
                             !.processedItems = st.processedItems]
         /\ passLog' = log
         /\ UNCHANGED <<items, processing>>

\* An exception leaves handleProcess: nothing after the throw runs.
Abort ==
  /\ hp' = [hp EXCEPT !.pc = "aborted"]
  /\ UNCHANGED <<items, processing, passLog>>

\* parseBulkItems settles; the loop runs up to its first await.
handleProcess_parsed ==
  /\ build = "component"
  /\ hp.pc = "parse"
  /\ \E env \in ParseEnvs :
       LET r == parseBulkItems(env)
       IN IF r.threw \/ ~r.array
               THEN Abort
               ELSE AfterLoop(RunLoop(hp.sorData,
                                      initialTenderItems(r.list, Range(confirmingItem)), <<>>),
                              [passLog EXCEPT !.parsed = <<r.list>>])
  /\ UNCHANGED <<build, catalogVars, inputText, confirmingItem, appVars, lastCall, backupOf>>

\* findBestMatchingItem settles for the current item; the loop goes on.
handleProcess_matched ==
  /\ build = "component"
  /\ hp.pc = "match"
  /\ LET tenderItem == Head(hp.pending)
         dbItems == dbItemSummary(hp.sorData)
     IN \E env \in MatchEnvs(dbItems) :
          LET r == findBestMatchingItem(dbItems, env)
          IN IF r.threw
                  THEN Abort
                  ELSE AfterLoop(
                         RunLoop(hp.sorData, Tail(hp.pending),
                                 Append(hp.processedItems,
                                        SemanticResult(tenderItem, hp.sorData, r.id))),
                         [passLog EXCEPT
                            !.replies = Append(@, Reply(tenderItem.id, r))])
  /\ UNCHANGED <<build, catalogVars, inputText, confirmingItem, appVars, lastCall, backupOf>>

HasItem(list, id) == \E i \in DOMAIN list : list[i].id = id

\* "Accept Match": opens the confirmation panel of a review item.
setConfirmingItem(id) ==
  /\ build = "component"
  /\ \E i \in DOMAIN items : items[i].id = id /\ items[i].status = "review"
  /\ confirmingItem' = <<id>>
  /\ UNCHANGED <<build, catalogVars, inputText, items, processing, hp, appVars,
                 historyVars>>

\* "Cancel" in the confirmation panel.
cancelConfirm ==
  /\ build = "component"
  /\ confirmingItem # <<>>
  /\ HasItem(items, confirmingItem[1])
  /\ confirmingItem' = <<>>
  /\ UNCHANGED <<build, catalogVars, inputText, items, processing, hp, appVars,
                 historyVars>>

\* Mutant: the identifier test is forgotten, every item becomes matched.
acceptMatch_all(list, id) ==
  Map(LAMBDA i : [i EXCEPT !.status = "matched"], list)

\* Mutant: the accepted item is rebuilt without its matched reference.
acceptMatch_dropsRef(list, id) ==
  Map(LAMBDA i : IF i.id = id
                   THEN [i EXCEPT !.status = "matched", !.matchedRate = <<>>]
                   ELSE i, list)

\* prev.map(i => i.id === item.id ? {...i, status: 'matched'} : i)
acceptMatch(list, id) ==
  Map(LAMBDA i : IF i.id = id THEN [i EXCEPT !.status = "matched"] ELSE i, list)

\* "Accept & Quote" in the confirmation panel of the item being confirmed.
acceptAndQuote ==
  /\ build = "component"
  /\ confirmingItem # <<>>
  /\ HasItem(items, confirmingItem[1])
  /\ items' = acceptMatch(items, confirmingItem[1])
  /\ confirmingItem' = <<>>
  /\ UNCHANGED <<build, catalogVars, inputText, processing, hp, appVars, historyVars>>

\* prev.filter(p => p.id !== item.id)
removeItem(list, id) == SelectSeq(list, LAMBDA p : p.id # id)

removeTenderItem(id) ==
  /\ build = "component"
  /\ HasItem(items, id)
  /\ items' = removeItem(items, id)
  /\ passLog' = IF items' = <<>> THEN NoPass ELSE passLog
  /\ UNCHANGED <<build, catalogVars, inputText, processing, confirmingItem, hp,
                 appVars, lastCall, backupOf>>

\* The trash button of the quotation header: setItems([]).
discardItems ==
  /\ build = "component"
  /\ items # <<>>
  /\ items' = <<>>
  /\ passLog' = NoPass
  /\ UNCHANGED <<build, catalogVars, inputText, processing, confirmingItem, hp,
                 appVars, lastCall, backupOf>>

\* ------------------------------------------------- App (single-file build)
setTenderInputText(text) ==
  /\ build = "monolith"
  /\ tenderItems = <<>>
  /\ tenderInputText' = text
  /\ UNCHANGED <<build, catalogVars, componentVars, tenderItems,
                 isProcessingTender, hpt, historyVars>>

\* Mutant: the button is there beside a quotation.
handleProcessTender_overList ==
  /\ build = "monolith"
  /\ ~isProcessingTender
  /\ trim(tenderInputText) # <<>>
  /\ Len(sorData) # 0
  /\ isProcessingTender' = TRUE
  /\ hpt' = [pc |-> "parse", sorData |-> sorData, pending |-> <<>>,
             processedItems |-> <<>>]
  /\ passLog' = [NoPass EXCEPT !.cat = sorData]
  /\ UNCHANGED <<build, catalogVars, componentVars, tenderInputText, tenderItems,
                 lastCall, backupOf>>

\* The click on "Match & Build Quotation", up to the first await.
handleProcessTender ==
  /\ build = "monolith"
  /\ tenderItems = <<>>
  /\ ~isProcessingTender
  /\ trim(tenderInputText) # <<>>
  /\ Len(sorData) # 0
  /\ isProcessingTender' = TRUE
  /\ hpt' = [pc |-> "parse", sorData |-> sorData, pending |-> <<>>,
             processedItems |-> <<>>]
  /\ passLog' = [NoPass EXCEPT !.cat = sorData]
  /\ UNCHANGED <<build, catalogVars, componentVars, tenderInputText, tenderItems,
                 lastCall, backupOf>>

\* Mutant: the status follows the reply, not the record found.
TenderResult_byReply(p, cat, matchedId, used) ==
  LET match == IF matchedId = <<>> THEN <<>>
               ELSE Find(cat, LAMBDA d : d.id = matchedId[1])
  IN [id |-> randomUUID(used, 1),
      name |-> p.name,
      quantity |-> IF p.quantity = 0 THEN 1 ELSE p.quantity,
      requestedScope |-> p.requestedScope,
      estimatedRate |-> p.estimatedRate,
      matchedRate |-> match,
      status |-> IF matchedId # <<>> THEN "matched" ELSE "no-match"]

\* results.push({...}) of handleProcessTender for the parsed line p.
TenderResult(p, cat, matchedId, used) ==
  LET match == IF matchedId = <<>> THEN <<>>
               ELSE Find(cat, LAMBDA d : d.id = matchedId[1])
  IN [id |-> randomUUID(used, 1),
      name |-> p.name,
      quantity |-> IF p.quantity = 0 THEN 1 ELSE p.quantity,
      requestedScope |-> p.requestedScope,
      estimatedRate |-> p.estimatedRate,
      matchedRate |-> match,
      status |-> IF match # <<>> THEN "matched" ELSE "no-match"]

\* setTenderItems(results); setIsProcessingTender(false)
Publish(results, log) ==
  /\ tenderItems' = results
  /\ isProcessingTender' = FALSE
  /\ hpt' = Idle
  /\ passLog' = [log EXCEPT !.published = <<results>>]

\* parseBulkItems settles; the for-of loop reaches its first await.
handleProcessTender_parsed ==
  /\ build = "monolith"
  /\ hpt.pc = "parse"
  /\ \E env \in ParseEnvs :
       LET r == App_parseBulkItems(env)
           log == [passLog EXCEPT !.parsed = <<r.list>>]
       IN IF r.threw \/ ~r.array
            THEN /\ hpt' = [hpt EXCEPT !.pc = "aborted"]
                 /\ UNCHANGED <<tenderItems, isProcessingTender, passLog>>
          ELSE IF r.list = <<>>
            THEN Publish(<<>>, log)
          ELSE /\ hpt' = [hpt EXCEPT !.pc = "match", !.pending = r.list]
               /\ passLog' = log
               /\ UNCHANGED <<tenderItems, isProcessingTender>>
  /\ UNCHANGED <<build, catalogVars, componentVars, tenderInputText, lastCall, backupOf>>

\* Mutant: the loop takes the lines from the end of the list.
handleProcessTender_matched_fromEnd ==
  /\ build = "monolith"
  /\ hpt.pc = "match"
  /\ LET p == hpt.pending[Len(hpt.pending)]
         rest == SubSeq(hpt.pending, 1, Len(hpt.pending) - 1)
         dbItems == dbItemSummary(hpt.sorData)
     IN \E env \in MatchEnvs(dbItems) :
          LET r == App_findBestMatchingItem(dbItems, env)
              used == {hpt.processedItems[i].id : i \in DOMAIN hpt.processedItems}
              item == TenderResult(p, hpt.sorData, r.id, used)
              results == Append(hpt.processedItems, item)
              log == [passLog EXCEPT !.replies = Append(@, Reply(item.id, r))]
          IN IF r.threw
               THEN /\ hpt' = [hpt EXCEPT !.pc = "aborted"]
                    /\ UNCHANGED <<tenderItems, isProcessingTender, passLog>>
             ELSE IF rest = <<>>
               THEN Publish(results, log)
             ELSE /\ hpt' = [hpt EXCEPT !.pending = rest,
                                        !.processedItems = results]
                  /\ passLog' = log
                  /\ UNCHANGED <<tenderItems, isProcessingTender>>
  /\ UNCHANGED <<build, catalogVars, componentVars, tenderInputText, lastCall, backupOf>>

\* Mutant: the loop reads the catalog of the moment.
handleProcessTender_matched_live ==
  /\ build = "monolith"
  /\ hpt.pc = "match"
  /\ LET p == Head(hpt.pending)
         dbItems == dbItemSummary(sorData)
     IN \E env \in MatchEnvs(dbItems) :
          LET r == App_findBestMatchingItem(dbItems, env)
              used == {hpt.processedItems[i].id : i \in DOMAIN hpt.processedItems}
              item == TenderResult(p, sorData, r.id, used)
              results == Append(hpt.processedItems, item)
              log == [passLog EXCEPT !.replies = Append(@, Reply(item.id, r))]
          IN IF r.threw
               THEN /\ hpt' = [hpt EXCEPT !.pc = "aborted"]
                    /\ UNCHANGED <<tenderItems, isProcessingTender, passLog>>
             ELSE IF Tail(hpt.pending) = <<>>
               THEN Publish(results, log)
             ELSE /\ hpt' = [hpt EXCEPT !.pending = Tail(@),
                                        !.processedItems = results]
                  /\ passLog' = log
                  /\ UNCHANGED <<tenderItems, isProcessingTender>>
  /\ UNCHANGED <<build, catalogVars, componentVars, tenderInputText, lastCall, backupOf>>

\* findBestMatchingItem settles for the current line; the loop goes on.
handleProcessTender_matched ==
  /\ build = "monolith"
  /\ hpt.pc = "match"
  /\ LET p == Head(hpt.pending)
         dbItems == dbItemSummary(hpt.sorData)
     IN \E env \in MatchEnvs(dbItems) :
          LET r == App_findBestMatchingItem(dbItems, env)
              used == {hpt.processedItems[i].id : i \in DOMAIN hpt.processedItems}
              item == TenderResult(p, hpt.sorData, r.id, used)
              results == Append(hpt.processedItems, item)
              log == [passLog EXCEPT !.replies = Append(@, Reply(item.id, r))]
          IN IF r.threw
               THEN /\ hpt' = [hpt EXCEPT !.pc = "aborted"]
                    /\ UNCHANGED <<tenderItems, isProcessingTender, passLog>>
             ELSE IF Tail(hpt.pending) = <<>>
               THEN Publish(results, log)
             ELSE /\ hpt' = [hpt EXCEPT !.pending = Tail(@),
                                        !.processedItems = results]
                  /\ passLog' = log
                  /\ UNCHANGED <<tenderItems, isProcessingTender>>
  /\ UNCHANGED <<build, catalogVars, componentVars, tenderInputText, lastCall, backupOf>>

\* The trash button of the quotation header: setTenderItems([]).
discardTenderItems ==
  /\ build = "monolith"
  /\ tenderItems # <<>>
  /\ tenderItems' = <<>>
  /\ passLog' = NoPass
  /\ UNCHANGED <<build, catalogVars, componentVars, tenderInputText,
                 isProcessingTender, hpt, lastCall, backupOf>>

\* Mutant: removal reaches into the quotation and takes the removed record
\* from the tender items that refer to it.
onDelete_cascade(id) ==
  /\ build = "monolith"
  /\ ~isFormOpen
  /\ \E i \in DOMAIN sorData : sorData[i].id = id
  /\ sorData' = SelectSeq(sorData, LAMBDA i : i.id # id)
  /\ store' = JSONstringify(sorData')
  /\ tenderItems' =
       [k \in DOMAIN tenderItems |->
          IF tenderItems[k].matchedRate # <<>> /\ tenderItems[k].matchedRate[1].id = id
            THEN [tenderItems[k] EXCEPT !.matchedRate = <<>>]
            ELSE tenderItems[k]]
  /\ UNCHANGED <<build, chosenFile, notice, confirmed, backup, formVars,
                 componentVars, tenderInputText, isProcessingTender, hpt,
                 historyVars>>

\* RateList onDelete: setSorData(s => s.filter(i => i.id !== id)), then the
\* persistence effect.
onDelete(id) ==
  /\ build = "monolith"
  /\ ~isFormOpen
  /\ \E i \in DOMAIN sorData : sorData[i].id = id
  /\ sorData' = SelectSeq(sorData, LAMBDA i : i.id # id)
  /\ store' = JSONstringify(sorData')
  /\ UNCHANGED <<build, chosenFile, notice, confirmed, backup, formVars,
                 componentVars, appVars, historyVars>>

\* handleBackup: the catalog is serialised into a file the user keeps.
handleBackup ==
  /\ build = "monolith"
  /\ ~isFormOpen
  /\ backup' = <<JSONstringify(sorData)>>
  /\ backupOf' = sorData
  /\ UNCHANGED <<build, sorData, store, chosenFile, notice, confirmed, formVars,
                 componentVars, appVars, passLog, lastCall>>

\* Mutant: the file's records are put in front of the catalog, which stays.
handleRestore_merge(file, answer) ==
  /\ build = "monolith"
  /\ chosenFile # <<file>>
  /\ chosenFile' = <<file>>
  /\ IF file.kind = "notJSON"
       THEN /\ notice' = "Invalid backup file."
            /\ confirmed' = <<>>
            /\ UNCHANGED <<sorData, store>>
     ELSE IF file.kind = "array"
       THEN /\ notice' = ""
            /\ confirmed' = <<answer>>
            /\ IF answer
                 THEN /\ sorData' = JSONparse(file) \o sorData
                      /\ store' = JSONstringify(sorData')
                 ELSE UNCHANGED <<sorData, store>>
     ELSE /\ notice' = ""
          /\ confirmed' = <<>>
          /\ UNCHANGED <<sorData, store>>
  /\ UNCHANGED <<build, backup, formVars, componentVars, appVars, historyVars>>

\* handleRestore (the change event of the file input) with the reader.onload
\* callback it registers: the newly chosen backup file is read and parsed.
\* The callback runs when the read is over, which may be after the rate form
\* has been opened;
\* answer is the user's answer to confirm(), which is asked only for an
\* array.  The persistence effect follows setSorData.
handleRestore(file, answer) ==
  /\ build = "monolith"
  /\ chosenFile # <<file>>
  /\ chosenFile' = <<file>>
  /\ IF file.kind = "notJSON"
       THEN /\ notice' = "Invalid backup file."
            /\ confirmed' = <<>>
            /\ UNCHANGED <<sorData, store>>
     ELSE IF file.kind = "array"
       THEN /\ notice' = ""
            /\ confirmed' = <<answer>>
            /\ IF answer
                 THEN /\ sorData' = JSONparse(file)
                      /\ store' = JSONstringify(sorData')
                 ELSE UNCHANGED <<sorData, store>>
     ELSE /\ notice' = ""
          /\ confirmed' = <<>>
          /\ UNCHANGED <<sorData, store>>
  /\ UNCHANGED <<build, backup, formVars, componentVars, appVars, historyVars>>

\* The page is loaded again: every useState starts over and the effects of
\* the first render run on what localStorage holds.  The file downloaded
\* last stays with the user.
reload ==
  /\ build = "monolith"
  /\ hpt.pc = "idle"
  /\ sorData' = mount(store).sorData
  /\ store' = mount(store).store
  /\ chosenFile' = <<>>
  /\ notice' = ""
  /\ confirmed' = <<>>
  /\ isFormOpen' = FALSE
  /\ editingItem' = <<>>
  /\ previewItems' = <<>>
  /\ tenderInputText' = <<>>
  /\ tenderItems' = <<>>
  /\ isProcessingTender' = FALSE
  /\ passLog' = NoPass
  /\ UNCHANGED <<build, backup, componentVars, hpt, lastCall, backupOf>>

\* The identifiers the program still holds: a fresh one differs from them.
HeldIds ==
  {sorData[i].id : i \in DOMAIN sorData}
  \cup {editingItem[i].id : i \in DOMAIN editingItem}
  \cup {hpt.sorData[i].id : i \in DOMAIN hpt.sorData}
  \cup {tenderItems[i].matchedRate[1].id :
          i \in {k \in DOMAIN tenderItems : tenderItems[k].matchedRate # <<>>}}

\* "Add Rate": setEditingItem(null); setIsFormOpen(true)
openAddForm ==
  /\ build = "monolith"
  /\ ~isFormOpen
  /\ isFormOpen' = TRUE
  /\ editingItem' = <<>>
  /\ previewItems' = <<>>
  /\ UNCHANGED <<build, sorData, store, chosenFile, notice, confirmed, backup,
                 componentVars, appVars, historyVars>>

\* RateList onEdit: setEditingItem(i); setIsFormOpen(true)
onEdit(item) ==
  /\ build = "monolith"
  /\ ~isFormOpen
  /\ isFormOpen' = TRUE
  /\ editingItem' = <<item>>
  /\ previewItems' = <<>>
  /\ UNCHANGED <<build, sorData, store, chosenFile, notice, confirmed, backup,
                 componentVars, appVars, historyVars>>

\* The close button and the backdrop: setIsFormOpen(false); the form and its
\* state are unmounted, editingItem stays.
onCancel ==
  /\ build = "monolith"
  /\ isFormOpen
  /\ isFormOpen' = FALSE
  /\ previewItems' = <<>>
  /\ UNCHANGED <<build, sorData, store, chosenFile, notice, confirmed, backup,
                 editingItem, componentVars, appVars, historyVars>>

\* Mutant: the updated record gets the time of the update.
updateRate_restamped(prev, editing, item) ==
  Map(LAMBDA r : IF r.id = editing.id THEN SORItem(item, r.id, CHOOSE now \in Clock : TRUE) ELSE r, prev)

\* prev.map(r => r.id === editingItem.id
\*                  ? { ...item, id: r.id, timestamp: r.timestamp } : r)
updateRate(prev, editing, item) ==
  Map(LAMBDA r : IF r.id = editing.id THEN SORItem(item, r.id, r.timestamp) ELSE r,
      prev)

\* [{ ...item, id: crypto.randomUUID(), timestamp: Date.now() }, ...prev]
addRate(prev, item, id, now) == <<SORItem(item, id, now)>> \o prev

\* Mutant: the batch is put behind the catalog.
bulkAdd_appended(prev, list, used, now) ==
  prev \o [i \in 1..Len(list) |-> SORItem(list[i], randomUUID(used, i), now)]

\* [...items.map(i => ({ ...i, id: crypto.randomUUID(), timestamp: Date.now() })),
\*  ...prev]
bulkAdd(prev, list, used, now) ==
  [i \in 1..Len(list) |-> SORItem(list[i], randomUUID(used, i), now)] \o prev

\* The submit of the single-entry form: handleAddOrUpdateRate with the record
\* the form builds, then the persistence effect.  The catalog is not grown
\* beyond MaxCatalog records.
handleAddOrUpdateRate(formData) ==
  /\ build = "monolith"
  /\ isFormOpen
  /\ previewItems = <<>>
  /\ IF editingItem # <<>>
       THEN sorData' = updateRate(sorData, editingItem[1], submitted(formData))
       ELSE /\ Len(sorData) < MaxCatalog
            /\ \E now \in Clock :
                 sorData' = addRate(sorData, submitted(formData),
                                    randomUUID(HeldIds, 1), now)
  /\ store' = JSONstringify(sorData')
  /\ isFormOpen' = FALSE
  /\ editingItem' = <<>>
  /\ UNCHANGED <<build, chosenFile, notice, confirmed, backup, previewItems,
                 componentVars, appVars, historyVars>>

\* "Scrape with AI" in the bulk tab: parseRatesFromText settles and its
\* result becomes the preview.
handleScrape ==
  /\ build = "monolith"
  /\ isFormOpen
  /\ editingItem = <<>>
  /\ previewItems = <<>>
  /\ \E env \in RateEnvs :
       LET r == App_parseRatesFromText(env)
       IN /\ r.array
          /\ r.list # <<>>
          /\ previewItems' = r.list
  /\ UNCHANGED <<build, sorData, store, chosenFile, notice, confirmed, backup,
                 isFormOpen, editingItem, componentVars, appVars, historyVars>>

\* "Discard and Try Again"
discardPreview ==
  /\ build = "monolith"
  /\ isFormOpen
  /\ previewItems # <<>>
  /\ previewItems' = <<>>
  /\ UNCHANGED <<build, sorData, store, chosenFile, notice, confirmed, backup,
                 isFormOpen, editingItem, componentVars, appVars, historyVars>>

\* "Import All Items": onBulkSubmit(previewItems), then the persistence
\* effect.  The catalog is not grown beyond MaxCatalog records.
onBulkSubmit ==
  /\ build = "monolith"
  /\ isFormOpen
  /\ previewItems # <<>>
  /\ Len(sorData) + Len(previewItems) <= MaxCatalog
  /\ \E now \in Clock : sorData' = bulkAdd(sorData, previewItems, HeldIds, now)
  /\ store' = JSONstringify(sorData')
  /\ isFormOpen' = FALSE
  /\ previewItems' = <<>>
  /\ UNCHANGED <<build, chosenFile, notice, confirmed, backup, editingItem,
                 componentVars, appVars, historyVars>>

NextComponent ==
  \/ \E text \in InputTexts : setInputText(text)
  \/ handleProcess
  \/ handleProcess_parsed
  \/ handleProcess_matched
  \/ \E id \in {items[i].id : i \in DOMAIN items} : setConfirmingItem(id)
  \/ cancelConfirm
  \/ acceptAndQuote
  \/ \E id \in {items[i].id : i \in DOMAIN items} : removeTenderItem(id)
  \/ discardItems

NextApp ==
  \/ \E text \in InputTexts : setTenderInputText(text)
  \/ handleProcessTender
  \/ handleProcessTender_parsed
  \/ handleProcessTender_matched
  \/ discardTenderItems

\* The tender quotation of both builds over a catalog that stays as loaded.
Next == NextComponent \/ NextApp

Spec == Init /\ [][Next]_vars

\* The automatic pass of both builds alone: typing, processing and discarding,
\* without the review controls.
NextPass ==
  \/ \E text \in InputTexts : setInputText(text)
  \/ handleProcess
  \/ handleProcess_parsed
  \/ handleProcess_matched
  \/ discardItems
  \/ NextApp

SpecPass == Init /\ [][NextPass]_vars

\* The same with the remote calls settling: the promise a pass awaits is
\* resolved or rejected in the end, and its continuation then runs.
SpecPassFair ==
  /\ SpecPass
  /\ WF_vars(handleProcess_parsed)
  /\ WF_vars(handleProcess_matched)
  /\ WF_vars(handleProcessTender_parsed)
  /\ WF_vars(handleProcessTender_matched)

\* The TenderProcessor component alone.
InitComponent == Init /\ build = "component"

SpecComponent == InitComponent /\ [][NextComponent]_vars

\* The catalog store of the App.
InitCatalog == Init /\ build = "monolith"

NextCatalog ==
  \/ \E id \in {sorData[i].id : i \in DOMAIN sorData} : onDelete(id)
  \/ handleBackup
  \/ \E file \in BackupFiles \cup Range(backup), answer \in BOOLEAN :
       handleRestore(file, answer)

SpecCatalog == InitCatalog /\ [][NextCatalog]_vars

\* The rate database of the App: the rate form, removal and restore.
NextRates ==
  \/ openAddForm
  \/ \E i \in DOMAIN sorData : onEdit(sorData[i])
  \/ onCancel
  \/ \E formData \in FormDatas : handleAddOrUpdateRate(formData)
  \/ handleScrape
  \/ discardPreview
  \/ onBulkSubmit
  \/ \E id \in {sorData[i].id : i \in DOMAIN sorData} : onDelete(id)
  \/ \E file \in EditedFiles, answer \in BOOLEAN : handleRestore(file, answer)

SpecRates == InitCatalog /\ [][NextRates]_vars

\* The rate database of the App from its start, over any content of
\* localStorage, with reloads of the page.
InitStartup ==
  /\ build = "monolith"
  /\ \E saved \in PersistedStores :
       /\ sorData = mount(saved).sorData
       /\ store = mount(saved).store
  /\ chosenFile = <<>>
  /\ notice = ""
  /\ confirmed = <<>>
  /\ backup = <<>>
  /\ isFormOpen = FALSE
  /\ editingItem = <<>>
  /\ previewItems = <<>>
  /\ inputText = <<>>
  /\ items = <<>>
  /\ processing = FALSE
  /\ confirmingItem = <<>>
  /\ hp = Idle
  /\ tenderInputText = <<>>
  /\ tenderItems = <<>>
  /\ isProcessingTender = FALSE
  /\ hpt = Idle
  /\ passLog = NoPass
  /\ lastCall = NoCall
  /\ backupOf = <<>>

NextStartup == reload \/ NextRates

SpecStartup == InitStartup /\ [][NextStartup]_vars

\* A quotation is on screen and the catalog is still the one it was made from.
Quoted == hpt.pc = "idle" /\ tenderItems # <<>> /\ sorData = passLog.cat

\* The App with one quotation of at most MaxQuoted lines, and the rate
\* database operated on the catalog the quotation was made from.
NextQuotation ==
  \/ \E text \in InputTexts : setTenderInputText(text)
  \/ tenderItems = <<>> /\ handleProcessTender
  \/ handleProcessTender_parsed /\ Len(hpt'.pending) <= MaxQuoted
  \/ handleProcessTender_matched
  \/ Quoted /\ NextRates

SpecQuotation == InitCatalog /\ [][NextQuotation]_vars

\* A pass is suspended on a remote call and the catalog is still the one it
\* started from.
Suspended == hpt.pc \in {"parse", "match"} /\ sorData = hpt.sorData

\* The App with one pass of at most MaxQuoted lines, and the rate database
\* operated while the pass is suspended.
NextSuspended ==
  \/ \E text \in InputTexts : setTenderInputText(text)
  \/ passLog = NoPass /\ handleProcessTender
  \/ handleProcessTender_parsed /\ Len(hpt'.pending) <= MaxQuoted
  \/ handleProcessTender_matched
  \/ Suspended /\ NextRates

SpecSuspended == InitCatalog /\ [][NextSuspended]_vars

\* The three adapter calls of either build, applied to every outcome of the
\* remote call.
callFindBestMatchingItem ==
  LET dbItems == dbItemSummary(sorData)
  IN \E env \in MatchEnvs(dbItems) :
       /\ lastCall' = CallRecord("findBestMatchingItem", env,
                                 IF build = "component"
                                   THEN findBestMatchingItem(dbItems, env)
                                   ELSE App_findBestMatchingItem(dbItems, env))
       /\ UNCHANGED <<build, catalogVars, componentVars, appVars, passLog, backupOf>>

callParseBulkItems ==
  \E env \in ParseEnvs :
    /\ lastCall' = CallRecord("parseBulkItems", env,
                              IF build = "component"
                                THEN parseBulkItems(env)
                                ELSE App_parseBulkItems(env))
    /\ UNCHANGED <<build, catalogVars, componentVars, appVars, passLog, backupOf>>

callParseRatesFromText ==
  \E env \in ParseEnvs :
    /\ lastCall' = CallRecord("parseRatesFromText", env,
                              IF build = "component"
                                THEN parseRatesFromText(env)
                                ELSE App_parseRatesFromText(env))
    /\ UNCHANGED <<build, catalogVars, componentVars, appVars, passLog, backupOf>>

NextAdapter ==
  \/ callFindBestMatchingItem
  \/ callParseBulkItems
  \/ callParseRatesFromText

SpecAdapter == Init /\ [][NextAdapter]_vars

\* ------------------------------------------------------------------ claims
\* The list on screen, the position of the pass and the list the pass published.
Listed == IF build = "component" THEN items ELSE tenderItems

PassPc == IF build = "component" THEN hp.pc ELSE hpt.pc

Published == IF passLog.published = <<>> THEN <<>> ELSE passLog.published[1]

\* The records of the pass's catalog that have the item's name, case ignored.
NameMatches(t) ==
  SelectSeq(passLog.cat, LAMBDA sor : toLowerCase(sor.name) = toLowerCase(t.name))

SameScope(sor, t) ==
  trim(toLowerCase(sor.scopeOfWork)) = trim(toLowerCase(t.requestedScope))

\* What findBestMatch returned for the item, if it was called for it.
ReplyFor(t) == SelectSeq(passLog.replies, LAMBDA r : r.id = t.id)

\* The catalog record an identifier returned by findBestMatch resolves to.
Resolved(matchedId) ==
  IF matchedId = <<>> THEN <<>>
  ELSE SelectSeq(passLog.cat, LAMBDA sor : sor.id = matchedId[1])

\* C1: an item whose name equals, case ignored, the name of exactly one catalog
\* record and whose scope equals that record's scope after trimming and case
\* folding is published as 'matched' with that record as its reference.
C1_ExactNameAndScopeMatched ==
  \A i \in DOMAIN Published :
    LET t == Published[i]
        ms == NameMatches(t)
    IN (Len(ms) = 1 /\ SameScope(ms[1], t))
         => (t.status = "matched" /\ t.matchedRate = <<ms[1]>>)

\* C2: an item whose name matches two catalog records at different rates is
\* published with the cheaper record as its reference, whatever their order.
C2_CheaperOfTwoSelected ==
  \A i \in DOMAIN Published :
    LET t == Published[i]
        ms == NameMatches(t)
    IN (Len(ms) = 2 /\ ms[1].rate # ms[2].rate)
         => t.matchedRate = <<IF ms[1].rate < ms[2].rate THEN ms[1] ELSE ms[2]>>

\* C3: an item without a name match for which findBestMatch returned an
\* identifier of a catalog record is published as 'review', never 'matched',
\* with that record as its reference.
C3_SemanticMatchNeedsReview ==
  \A i \in DOMAIN Published :
    LET t == Published[i]
        rs == ReplyFor(t)
    IN (NameMatches(t) = <<>> /\ rs # <<>> /\ Resolved(rs[1].matchedId) # <<>>)
         => (t.status = "review" /\ t.matchedRate = <<Resolved(rs[1].matchedId)[1]>>)

\* C4: an item without a name match for which findBestMatch returned none, or
\* an identifier that resolves to no catalog record, is published as
\* 'no-match' without a matched reference.
C4_NoMatchWithoutReference ==
  \A i \in DOMAIN Published :
    LET t == Published[i]
        rs == ReplyFor(t)
    IN (NameMatches(t) = <<>> /\ rs # <<>> /\ Resolved(rs[1].matchedId) = <<>>)
         => (t.status = "no-match" /\ t.matchedRate = <<>>)

C4_Witness ==
  \E i \in DOMAIN Published :
    /\ NameMatches(Published[i]) = <<>>
    /\ ReplyFor(Published[i]) # <<>>
    /\ ReplyFor(Published[i])[1].matchedId = <<0>>
    /\ Published[i].status = "no-match"

\* C5: in the TenderProcessor pass an item with at least one name match gets a
\* record of minimum rate among them as its reference, and is 'review' when
\* that record's scope differs from the requested scope after trimming and
\* case folding.
C5_ScopeMismatchNeedsReview ==
  build = "component" =>
    \A i \in DOMAIN Published :
      LET t == Published[i]
          ms == NameMatches(t)
      IN Len(ms) > 0 =>
           /\ t.matchedRate # <<>>
           /\ \E k \in DOMAIN ms : t.matchedRate[1] = ms[k]
           /\ \A k \in DOMAIN ms : t.matchedRate[1].rate <= ms[k].rate
           /\ t.status \in {"matched", "review"}
           /\ ~SameScope(t.matchedRate[1], t) => t.status = "review"

C5_Witness ==
  /\ build = "component"
  /\ \E i \in DOMAIN Published :
       /\ Len(NameMatches(Published[i])) = 2
       /\ NameMatches(Published[i])[1].rate > NameMatches(Published[i])[2].rate
       /\ Published[i].matchedRate = <<NameMatches(Published[i])[2]>>
       /\ ~SameScope(NameMatches(Published[i])[2], Published[i])
       /\ Published[i].status = "review"

\* C6: once the pass has published the list, every step leaves the status of
\* every item that stays listed as it was, except that accepting the item
\* under confirmation takes it from 'review' to 'matched'.
C6_OnlyAcceptChangesStatus ==
  [][\A i \in DOMAIN items : \A j \in DOMAIN items' :
       items[i].id = items'[j].id =>
         \/ items'[j].status = items[i].status
         \/ /\ items[i].status = "review"
            /\ items'[j].status = "matched"
            /\ confirmingItem = <<items[i].id>>]_vars

\* An item published as 'review' is now listed as 'matched'.
Accepted(t) ==
  /\ t.status = "matched"
  /\ \E k \in DOMAIN Published :
       Published[k].id = t.id /\ Published[k].status = "review"

C6_Witness ==
  /\ build = "component"
  /\ \E i \in DOMAIN items : Accepted(items[i])

\* C7: accepting an item a second time changes nothing more, and accepting an
\* item that is already 'matched' leaves its status and its matched reference
\* as they are.
C7_AcceptIdempotent ==
  build = "component" =>
    \A i \in DOMAIN items :
      LET once == acceptMatch(items, items[i].id)
      IN /\ acceptMatch(once, items[i].id) = once
         /\ once[i].status = "matched"
         /\ items[i].status = "matched" =>
              /\ once[i].matchedRate = items[i].matchedRate
              /\ once = items

C7_Witness ==
  /\ build = "component"
  /\ confirmingItem = <<>>
  /\ \E i \in DOMAIN items : Accepted(items[i]) /\ items[i].matchedRate # <<>>
  /\ \E i \in DOMAIN items : items[i].status = "review"

\* C8: once extraction has delivered a list, the pass ends with one result per
\* parsed line, in the parsed order and none of them 'pending', whatever the
\* findBestMatch calls do.
C8_BatchCompletes ==
  (PassPc \notin {"parse", "match"} /\ passLog.parsed # <<>>) =>
    /\ passLog.published # <<>>
    /\ Len(Published) = Len(passLog.parsed[1])
    /\ \A i \in DOMAIN Published :
         /\ Published[i].name = passLog.parsed[1][i].name
         /\ Published[i].status \in {"matched", "review", "no-match"}

\* C9: an adapter call that meets a failure does not throw and returns the
\* empty list (extraction) or none (findBestMatch).
C9_AdapterNeverThrows ==
  lastCall.failure => (~lastCall.threw /\ lastCall.none)

\* C10: choosing a backup file that is no JSON, or JSON that is no array,
\* raises the invalid-file notice and leaves the catalog, in memory and
\* persisted, as it was.
C10_RestoreFailureReported ==
  [][(chosenFile' # chosenFile /\ chosenFile'[1].kind \in {"notJSON", "object"})
       => (notice' = "Invalid backup file." /\ sorData' = sorData /\ store' = store)]_vars

\* The catalog holds the elements of the array document, member by member and
\* in the document's order, and nothing else.
HoldsExactly(cat, doc) ==
  /\ Len(cat) = Len(doc.list)
  /\ \A i \in DOMAIN cat :
       /\ DOMAIN cat[i] = {doc.list[i][k][1] : k \in DOMAIN doc.list[i]}
       /\ \A k \in DOMAIN doc.list[i] : cat[i][doc.list[i][k][1]] = doc.list[i][k][2]

\* C11: choosing a backup file that is a JSON array asks for confirmation;
\* when the user confirms the catalog becomes exactly that array, when the
\* user declines the catalog stays as it was.
C11_RestoreAfterConfirmation ==
  [][(chosenFile' # chosenFile /\ chosenFile'[1].kind = "array") =>
       /\ confirmed' \in {<<TRUE>>, <<FALSE>>}
       /\ confirmed' = <<TRUE>> => HoldsExactly(sorData', chosenFile'[1])
       /\ confirmed' = <<FALSE>> => sorData' = sorData]_vars

\* A confirmed restore has replaced a catalog by a file of another length.
C11_Witness ==
  /\ chosenFile # <<>>
  /\ chosenFile[1].kind = "array"
  /\ confirmed = <<TRUE>>
  /\ Len(chosenFile[1].list) = 1
  /\ HoldsExactly(sorData, chosenFile[1])
  /\ backupOf # sorData
  /\ Len(backupOf) = 2

\* C12: restoring, with confirmation, the file handleBackup wrote gives the
\* catalog the backup was taken of: the same records with the same seven
\* field values, in the same order.
C12_BackupRestoreRoundTrip ==
  [][(chosenFile' # chosenFile /\ chosenFile' = backup /\ confirmed' = <<TRUE>>) =>
       /\ Len(sorData') = Len(backupOf)
       /\ \A i \in DOMAIN backupOf :
            /\ DOMAIN sorData'[i] = DOMAIN backupOf[i]
            /\ \A f \in {"id", "name", "unit", "rate", "scopeOfWork", "source",
                          "timestamp"} : sorData'[i][f] = backupOf[i][f]]_vars

\* The backup of a two-record catalog has been restored over another catalog.
C12_Witness ==
  /\ backup # <<>>
  /\ chosenFile = backup
  /\ confirmed = <<TRUE>>
  /\ Len(backupOf) = 2
  /\ sorData = backupOf
  /\ store = backup[1]
  /\ backupOf[1].rate # backupOf[2].rate

\* The sum of quantity times rate over the items of the set I of positions.
RECURSIVE QuotedSum(_, _)
QuotedSum(list, I) ==
  IF I = {} THEN 0
  ELSE LET i == CHOOSE k \in I : TRUE
       IN list[i].quantity * list[i].matchedRate[1].rate + QuotedSum(list, I \ {i})

WithReference(list) == {i \in DOMAIN list : list[i].matchedRate # <<>>}

\* C13: the grand total of the listed items is the sum of quantity times
\* matched rate over the items that have a matched reference, and a step that
\* removes one item lowers it by that item's line total.
C13_GrandTotal ==
  /\ [](grandTotal(Listed) = QuotedSum(Listed, WithReference(Listed)))
  /\ [][\A i \in DOMAIN items :
          items' = [k \in 1..(Len(items) - 1) |-> IF k < i THEN items[k] ELSE items[k + 1]]
            => grandTotal(items') =
                 grandTotal(items) - (IF i \in WithReference(items)
                                        THEN items[i].quantity * items[i].matchedRate[1].rate
                                        ELSE 0)]_vars

\* One of two priced items has been removed; the one that is left is a
\* 'review' item and its line total is the grand total.
C13_Witness ==
  /\ build = "component"
  /\ Len(Published) = 2
  /\ \A i \in DOMAIN Published : lineTotal(Published[i]) > 0
  /\ Len(items) = 1
  /\ items[1].status = "review"
  /\ grandTotal(items) = lineTotal(items[1])
  /\ grandTotal(items) < grandTotal(Published)

\* The positions of the catalog records named like record i, case ignored.
Group(i) ==
  {j \in DOMAIN sorData : toLowerCase(sorData[j].name) = toLowerCase(sorData[i].name)}

\* C14: a catalog record carries the benchmark flag exactly when its group
\* has more than one member and no member of the group has a lower rate.
C14_BenchmarkFlag ==
  \A i \in DOMAIN sorData :
    isLowest(sorData, sorData[i])
      <=> (Cardinality(Group(i)) > 1
           /\ \A j \in Group(i) : sorData[i].rate <= sorData[j].rate)

\* Two records whose names differ in case only are tied at the minimum and
\* both flagged.
C14_Witness ==
  \E i, j \in DOMAIN sorData :
    /\ sorData[i].name # sorData[j].name
    /\ j \in Group(i)
    /\ sorData[i].rate = sorData[j].rate
    /\ isLowest(sorData, sorData[i])
    /\ isLowest(sorData, sorData[j])

\* C15: every catalog record's rate is a number that is not negative, after
\* any sequence of add, update, bulk add, removal and restore.
C15_RatesNonNegative ==
  \A i \in DOMAIN sorData : sorData[i].rate >= 0

\* C16: no two catalog records share an identifier, after any sequence of
\* add, update, bulk add, removal and restore.
C16_IdsUnique ==
  \A i, j \in DOMAIN sorData : sorData[i].id = sorData[j].id => i = j

\* The record r carries the fields submitted with the form f.
CarriesForm(r, f) ==
  /\ r.name = f.name
  /\ r.unit = f.unit
  /\ r.rate = parseFloat(f.rate)
  /\ r.scopeOfWork = f.scopeOfWork
  /\ r.source = f.source

\* A step that submits the form while a record is being edited.
UpdateStep == isFormOpen /\ editingItem # <<>> /\ editingItem' = <<>>

\* C17: an update gives the record with the edited identifier the submitted
\* name, unit, rate, scope and source, keeps its identifier, its timestamp
\* and its place, leaves every other record as it was, and changes nothing
\* when no record carries the identifier.
C17_UpdateInPlace ==
  [][UpdateStep =>
       /\ Len(sorData') = Len(sorData)
       /\ \E f \in FormDatas :
            \A i \in DOMAIN sorData :
              IF sorData[i].id = editingItem[1].id
                THEN /\ CarriesForm(sorData'[i], f)
                     /\ sorData'[i].id = sorData[i].id
                     /\ sorData'[i].timestamp = sorData[i].timestamp
                ELSE sorData'[i] = sorData[i]
       /\ ((\A i \in DOMAIN sorData : sorData[i].id # editingItem[1].id)
             => sorData' = sorData)]_vars

\* The second of two records was updated: it carries the submitted rate and
\* its timestamp from before start-up, behind a record that was left alone.
C17_Witness ==
  /\ Len(sorData) = 2
  /\ sorData[2].rate = -5
  /\ sorData[2].timestamp < CHOOSE now \in Clock : TRUE
  /\ sorData[1].rate # -5
  /\ ~isFormOpen

\* A step that closes the form of a new entry with a changed catalog: the
\* submit of the single-entry form, or the import of the preview.
AddStep ==
  isFormOpen /\ ~isFormOpen' /\ editingItem = <<>> /\ sorData' # sorData

\* The record r is new in the step: its identifier is held by no record of
\* the catalog before the step and its timestamp is the time of the step.
FreshIn(r) ==
  /\ \A i \in DOMAIN sorData : sorData[i].id # r.id
  /\ r.timestamp \in Clock

\* C18: an add puts the one new record, and a bulk add the batch in its
\* input order, in front of the catalog as it was, each new record with a
\* fresh identifier and a fresh timestamp.
C18_AddsPrepend ==
  [][AddStep =>
       LET n == IF previewItems = <<>> THEN 1 ELSE Len(previewItems)
       IN /\ Len(sorData') = n + Len(sorData)
          /\ \A i \in DOMAIN sorData : sorData'[n + i] = sorData[i]
          /\ \A k \in 1..n : FreshIn(sorData'[k])
          /\ \A k, l \in 1..n : sorData'[k].id = sorData'[l].id => k = l
          /\ IF previewItems = <<>>
               THEN \E f \in FormDatas : CarriesForm(sorData'[1], f)
               ELSE \A k \in 1..n :
                      sorData'[k] = SORItem(previewItems[k], sorData'[k].id,
                                            sorData'[k].timestamp)]_vars

\* An extracted record was imported in front of a record from before
\* start-up.
C18_Witness ==
  /\ Len(sorData) = 2
  /\ sorData[1].timestamp \in Clock
  /\ sorData[1].rate = 20
  /\ sorData[2].timestamp \notin Clock
  /\ sorData[1].id # sorData[2].id
  /\ ~isFormOpen

\* C19: the quotation card and the exported row of a tender item carry a
\* variance exactly when the item has a matched rate and an estimated rate,
\* and the variance is then (quoted - estimated) / estimated * 100.
C19_VarianceWhenBothPresent ==
  \A k \in DOMAIN items :
    LET item == items[k]
        both == item.matchedRate # <<>> /\ item.estimatedRate # <<>>
        variance == Ratio((item.matchedRate[1].rate - item.estimatedRate[1]) * 100,
                          item.estimatedRate[1])
    IN /\ cardDiff(item) # <<>> <=> both
       /\ exportDiffCell(item) # <<"N/A">> <=> both
       /\ both => /\ cardDiff(item) = <<variance>>
                   /\ exportDiffCell(item) = <<toFixed2(variance), "%">>

\* C20: a step that changes the catalog leaves every tender item that has a
\* matched reference with the same matched name, rate, unit, source and
\* scope and the same line total, and leaves the grand total as it was.
C20_SnapshotOnMatch ==
  [][sorData' # sorData =>
       /\ Len(tenderItems') = Len(tenderItems)
       /\ \A k \in DOMAIN tenderItems :
            tenderItems[k].matchedRate # <<>> =>
              /\ tenderItems'[k].matchedRate # <<>>
              /\ \A field \in {"name", "rate", "unit", "source", "scopeOfWork"} :
                   tenderItems'[k].matchedRate[1][field]
                     = tenderItems[k].matchedRate[1][field]
              /\ lineTotal(tenderItems'[k]) = lineTotal(tenderItems[k])
       /\ grandTotal(tenderItems') = grandTotal(tenderItems)]_vars

\* The quotation holds a priced reference to a record that the catalog no
\* longer holds as it was matched: it was updated, removed or replaced.
C20_Witness ==
  /\ hpt.pc = "idle"
  /\ sorData # passLog.cat
  /\ \E k \in DOMAIN tenderItems :
       /\ tenderItems[k].matchedRate # <<>>
       /\ lineTotal(tenderItems[k]) > 0
       /\ \A i \in DOMAIN sorData : sorData[i] # tenderItems[k].matchedRate[1]
       /\ \E i \in DOMAIN passLog.cat : passLog.cat[i] = tenderItems[k].matchedRate[1]

\* The text area and the processing flag of the build that runs.
PassText == IF build = "component" THEN inputText ELSE tenderInputText

PassFlag == IF build = "component" THEN processing ELSE isProcessingTender

\* A step in which a pass starts.
StartStep == PassPc = "idle" /\ PassPc' = "parse"

\* C21: a pass starts only from a state in which the catalog has a record,
\* the input text is not blank and no pass is in progress.
C21_StartNeedsCatalog ==
  [][StartStep =>
       /\ Len(sorData) >= 1
       /\ trim(PassText) # <<>>
       /\ ~PassFlag
       /\ Len(passLog'.cat) >= 1]_vars

\* A pass has started, over a catalog that is not empty.
C21_Witness ==
  /\ PassPc = "parse"
  /\ PassFlag
  /\ Len(sorData) >= 1
  /\ trim(PassText) # <<>>

\* The quantity extraction delivered for the k-th line of the pass.
Delivered(k) == passLog.parsed[1][k].quantity

\* C22: every tender item a pass created has a positive quantity: the one
\* extraction delivered for its line, and 1 when extraction delivered none.
C22_QuantityPositive ==
  \A k \in DOMAIN Published :
    /\ Published[k].quantity > 0
    /\ Published[k].quantity = IF Delivered(k) = 0 THEN 1 ELSE Delivered(k)

\* A reader of CSV content in which every field is quoted.  The field whose
\* text starts at position k closes at the first quote that is not the first
\* of a pair; 0 when there is none.
RECURSIVE FieldEnd(_, _)
FieldEnd(text, k) ==
  IF k > Len(text) THEN 0
  ELSE IF text[k] # "\"" THEN FieldEnd(text, k + 1)
  ELSE IF k < Len(text) /\ text[k + 1] = "\"" THEN FieldEnd(text, k + 2)
  ELSE k

\* The field's text: of every pair of quotes one.
RECURSIVE Undouble(_)
Undouble(raw) ==
  IF raw = <<>> THEN <<>>
  ELSE IF Head(raw) = "\"" THEN <<"\"">> \o Undouble(Tail(Tail(raw)))
  ELSE <<Head(raw)>> \o Undouble(Tail(raw))

\* The table of fields read from position i on, or <<"malformed">> when a
\* field is not quoted or is followed by anything but a comma, CRLF or the end.
RECURSIVE ReadCSV(_, _, _, _)
ReadCSV(text, i, row, table) ==
  IF i > Len(text) \/ text[i] # "\"" \/ FieldEnd(text, i + 1) = 0
    THEN <<"malformed">>
  ELSE LET j == FieldEnd(text, i + 1)
           fields == Append(row, Undouble(SubSeq(text, i + 1, j - 1)))
       IN IF j = Len(text) THEN Append(table, fields)
          ELSE IF text[j + 1] = "," THEN ReadCSV(text, j + 2, fields, table)
          ELSE IF text[j + 1] = "\r" /\ j + 2 <= Len(text) /\ text[j + 2] = "\n"
            THEN ReadCSV(text, j + 3, <<>>, Append(table, fields))
          ELSE <<"malformed">>

\* The content starts with the byte-order mark, and what follows reads back
\* as the table: rows parted by CRLF, every field quoted, every quote of a
\* cell written twice.
WellFormedCSV(content, table) ==
  /\ content # <<>>
  /\ Head(content) = BOM
  /\ ReadCSV(Tail(content), 1, <<>>, <<>>) = table

\* C23: the exported CSV content of the catalog starts with a byte-order
\* mark and is its rows joined by CRLF, every cell in quotes with every quote
\* inside a cell doubled, from either generateCSV.
C23_CSVQuoting ==
  LET table == <<DatabaseHeaders>> \o DatabaseRows(sorData)
  IN /\ WellFormedCSV(handleExportDatabase(sorData), table)
     /\ WellFormedCSV(TenderProcessor_generateCSV(table), table)

\* The catalog holds a record whose name has a double quote in it, and the
\* export writes that name as a quoted field with the quote doubled.
C23_Witness ==
  \E i \in DOMAIN sorData :
    /\ sorData[i].name = <<"q", "\"">>
    /\ CSVCell(sorData[i].name) = <<"\"", "q", "\"", "\"", "\"">>
    /\ Len(sorData) = 2

\* C24: every pass that started publishes its list and clears the
\* processing flag in the end, whatever the remote calls deliver.
C24_PassCompletes ==
  (PassPc = "parse") ~> (PassPc = "idle" /\ ~PassFlag /\ passLog.published # <<>>)

\* The lines the suspended pass has still to do, the first of them being the
\* one whose call is outstanding, and the items it has done.
PassPending == IF build = "component" THEN hp.pending ELSE hpt.pending

PassDone == IF build = "component" THEN hp.processedItems ELSE hpt.processedItems

Parsed == passLog.parsed[1]

SameLine(item, line) ==
  item.name = line.name /\ item.requestedScope = line.requestedScope

\* C25: while a pass waits for findBestMatch, the call outstanding is the
\* one call for the first line not yet done; the lines before it, in the
\* order of the parsed list, are done and their calls have returned, in
\* that order, and no call has been issued for a later line.
C25_OneCallInOrder ==
  PassPc = "match" =>
    /\ PassPending # <<>>
    /\ Len(PassDone) + Len(PassPending) = Len(Parsed)
    /\ \A k \in DOMAIN PassDone : SameLine(PassDone[k], Parsed[k])
    /\ \A k \in DOMAIN PassPending : SameLine(PassPending[k], Parsed[Len(PassDone) + k])
    /\ Len(passLog.replies) <= Len(PassDone)
    /\ \A a \in DOMAIN passLog.replies :
         \E k \in DOMAIN PassDone :
           /\ PassDone[k].id = passLog.replies[a].id
           /\ \A b \in DOMAIN passLog.replies :
                a < b => \E l \in DOMAIN PassDone :
                           l > k /\ PassDone[l].id = passLog.replies[b].id

\* The call for the first line has returned and the call for the second,
\* another line, is outstanding.
C25_Witness ==
  /\ PassPc = "match"
  /\ Len(passLog.replies) = 1
  /\ Len(PassDone) = 1
  /\ Len(PassPending) = 1
  /\ ~SameLine(PassDone[1], PassPending[1])

\* C26: findBestMatch called with the summary of an empty catalog returns
\* none whatever the client and the remote service would have done: neither
\* is reached.
C26_EmptyCatalogShortCircuit ==
  (lastCall.fn = "findBestMatchingItem" /\ Len(dbItemSummary(sorData)) = 0)
    => (lastCall.none /\ ~lastCall.threw)

\* The call was made with an empty summary in an environment in which the
\* client or the request fails, and it returned none.
C26_Witness ==
  /\ lastCall.fn = "findBestMatchingItem"
  /\ Len(dbItemSummary(sorData)) = 0
  /\ lastCall.failure
  /\ lastCall.none

\* C27: in every state of the tender list an item has a matched reference
\* exactly when its status is 'matched' or 'review', an item of status
\* 'no-match' has none, and no listed item is 'pending'.
C27_StatusAndReference ==
  \A k \in DOMAIN Listed :
    /\ Listed[k].status \in {"matched", "review", "no-match"}
    /\ Listed[k].matchedRate # <<>> <=> Listed[k].status \in {"matched", "review"}
    /\ Listed[k].status = "no-match" => Listed[k].matchedRate = <<>>

\* Of two published items one was removed and the other, published for
\* review, was accepted: it is 'matched' and has its reference.
C27_Witness ==
  /\ build = "component"
  /\ Len(Published) = 2
  /\ Len(Listed) = 1
  /\ Listed[1].status = "matched"
  /\ Listed[1].matchedRate # <<>>
  /\ \E k \in DOMAIN Published :
       Published[k].id = Listed[1].id /\ Published[k].status = "review"

\* C28: what a pass publishes is made from the catalog the pass started
\* with: the k-th item carries the record of that catalog which the k-th
\* reply names, or none, whatever was done to the catalog while the pass
\* was suspended.
C28_PassReadsStartingCatalog ==
  \A k \in DOMAIN Published :
    LET matchedId == passLog.replies[k].matchedId
        ref == Published[k].matchedRate
    IN /\ ref = (IF matchedId = <<>> THEN <<>>
                 ELSE Find(passLog.cat, LAMBDA d : d.id = matchedId[1]))
       /\ ref # <<>> => \E i \in DOMAIN passLog.cat : passLog.cat[i] = ref[1]

\* The pass published a reference to a record of its starting catalog that
\* the catalog, changed while the pass was suspended, does not hold.
C28_Witness ==
  /\ hpt.pc = "idle"
  /\ sorData # passLog.cat
  /\ \E k \in DOMAIN Published :
       /\ Published[k].matchedRate # <<>>
       /\ \A i \in DOMAIN sorData : sorData[i] # Published[k].matchedRate[1]

\* A step in which a pass publishes its list.
PublishStep == PassPc \in {"parse", "match"} /\ PassPc' = "idle"

\* C29: a pass starts only while the processing flag is clear and the tender
\* list is empty; while it runs the flag is set and the list stays empty, so
\* no other pass starts beside it, and the list it publishes replaces
\* nothing.
C29_OnePassAtATime ==
  /\ [](PassPc \in {"parse", "match"} => (PassFlag /\ Listed = <<>>))
  /\ [][StartStep => (~PassFlag /\ Listed = <<>> /\ PassFlag')]_vars
  /\ [][PublishStep => (Listed = <<>> /\ Listed' = Published' /\ ~PassFlag')]_vars

\* A pass waits for findBestMatch: the flag is set and the list is empty.
C29_Witness ==
  /\ PassPc = "match"
  /\ PassFlag
  /\ Listed = <<>>
  /\ trim(PassText) # <<>>
  /\ Len(sorData) >= 1

\* C30: after start-up and after every step the value under the persistence
\* key is the serialisation of the catalog in memory, and a start of the
\* App over a persisted catalog that is not empty ends with that catalog in
\* memory and the persisted value as it was.
C30_StoreFollowsCatalog ==
  /\ [](store = JSONstringify(sorData))
  /\ [][(reload /\ store.kind = "array" /\ store.list # <<>>)
          => (sorData' = JSONparse(store) /\ store' = store)]_vars

\* The page was loaded again after a confirmed restore of a file with two
\* records: the restore input is empty and the restored catalog is there,
\* in memory and persisted.
C30_Witness ==
  /\ chosenFile = <<>>
  /\ confirmed = <<>>
  /\ \E file \in EditedFiles : file.list # <<>> /\ sorData = JSONparse(file)
  /\ store = JSONstringify(sorData)

====
